---------------------------- MODULE Spec2Model ----------------------------
(***************************************************************************)
(* Chroma Snake: the game tick and the attempt progression of the Game     *)
(* component, in its two variants:                                         *)
(*   "final"   : src/unnamed/part_000                                      *)
(*   "earlier" : src/src/components/Game.tsx                               *)
(*                                                                         *)
(* React is modelled as follows.  A setGameState(updater) call applies the *)
(* updater to the latest state, each updater exactly once, in the order of *)
(* the calls.  The timer effect (useEffect with the dependencies speed and *)
(* gameOver) runs after the render that changed a dependency and before    *)
(* the next update is processed; a timer callback that is already due may  *)
(* fire before that.  The callback of an interval is the moveSnake of the  *)
(* render in which the interval was armed, so the handleGameOver it calls  *)
(* reads the gameState and highScore of that render, while refs            *)
(* (scoreTracker, latestScores, expectedScore) are read live.              *)
(***************************************************************************)
EXTENDS Integers, Sequences, FiniteSets, TLC

VARIABLES
    win,            \* window size in pixels, fixed at module load
    variant,        \* which of the two source files runs
    hasChannel,     \* window.ReactNativeWebView is present
    gameState,      \* useState(initialState)
    highScore,      \* useState(0), after loadHighScore
    persisted,      \* AsyncStorage item 'highScore'
    scoreTracker,   \* useRef(new ScoreTracker())
    latestScores,   \* useRef([0, 0, 0])   (final variant)
    expectedScore,  \* useRef(0)           (final variant)
    timer,          \* the interval of the tick effect and what its callback captured
    effDeps,        \* dependencies the tick effect last ran with
    sent,           \* messages posted to the host since the current attempt began
    stage,          \* history: ordinal of the current attempt in the session, 1..6
    eaten,          \* history: foods eaten in the current attempt
    finals,         \* history: score at the collision of real attempts 1..3
    ticks,          \* history: ticks fired in the current attempt
    turns,          \* history: swipes passed on in the current attempt
    request         \* history: the direction last passed to handleGesture in the attempt

vars == <<win, variant, hasChannel, gameState, highScore, persisted, scoreTracker,
          latestScores, expectedScore, timer, effDeps, sent, stage, eaten, finals,
          ticks, turns, request>>

-----------------------------------------------------------------------------
(* Bounds of the exploration: a non-fatal tick fires only while fewer than   *)
(* MaxTicks ticks have fired in the attempt, a swipe is passed on only while *)
(* fewer than MaxTurns have been.                                            *)

MaxTicks == 11
MaxTurns == 2

\* window sizes the module is loaded with
Windows == { [w |-> 400, h |-> 380], [w |-> 1000, h |-> 1000], [w |-> 1280, h |-> 720] }

\* outcomes of getRandomPosition the exploration draws from
FoodRolls == { [x |-> 11, y |-> 10], [x |-> 10, y |-> 11] }

\* outcomes of Math.floor(Math.random() * 5) the exploration draws from
ColorRolls == { 0, 4 }

\* values of the stored high score the exploration starts from
StoredHighScores == { 5 }

-----------------------------------------------------------------------------
(* Game constants *)

GRID_SIZE == 20

CELL_SIZE(wn) == wn.w \div GRID_SIZE

GRID_WIDTH(wn) == wn.w \div CELL_SIZE(wn)

\* Math.floor((height * 0.8) / CELL_SIZE)
GRID_HEIGHT(wn) == (wn.h * 8) \div (10 * CELL_SIZE(wn))

COLORS == << "RED", "ORANGE", "YELLOW", "GREEN", "BLUE", "GREY", "BLACK" >>

DIRECTIONS ==
    [ UP    |-> [x |-> 0,  y |-> -1],
      DOWN  |-> [x |-> 0,  y |-> 1],
      LEFT  |-> [x |-> -1, y |-> 0],
      RIGHT |-> [x |-> 1,  y |-> 0] ]

DirectionNames == { "UP", "DOWN", "LEFT", "RIGHT" }

initialState ==
    [ snake                |-> << [x |-> 5, y |-> 5], [x |-> 4, y |-> 5], [x |-> 3, y |-> 5] >>,
      food                 |-> [x |-> 10, y |-> 10, color |-> "RED"],
      direction            |-> "RIGHT",
      speed                |-> 200,
      score                |-> 0,
      gameOver             |-> FALSE,
      snakeColor           |-> "RED",
      showRules            |-> TRUE,
      isPractice           |-> TRUE,
      practiceAttemptsLeft |-> 3,
      realAttemptsLeft     |-> 3,
      realScores           |-> << 0, 0, 0 >>,
      currentAttemptNumber |-> 0 ]

\* the three 2x2 blocks, in the order the loops push them
generateObstacles(wn) ==
    LET patternLocations ==
            << [startX |-> (GRID_WIDTH(wn) * 25) \div 100, startY |-> (GRID_HEIGHT(wn) * 25) \div 100],
               [startX |-> (GRID_WIDTH(wn) * 75) \div 100, startY |-> (GRID_HEIGHT(wn) * 25) \div 100],
               [startX |-> (GRID_WIDTH(wn) * 50) \div 100, startY |-> (GRID_HEIGHT(wn) * 75) \div 100] >>
    IN  [ n \in 1..12 |->
            LET location == patternLocations[((n - 1) \div 4) + 1]
                i == ((n - 1) % 4) \div 2
                j == (n - 1) % 2
            IN  [x |-> location.startX + i, y |-> location.startY + j] ]

\* the positions getRandomPosition can return, restricted to the rolls explored
getRandomPosition(wn) ==
    { p \in FoodRolls : p.x \in 0..(GRID_WIDTH(wn) - 1) /\ p.y \in 0..(GRID_HEIGHT(wn) - 1) }

\* Object.values(COLORS).filter(c => c !== GREY && c !== BLACK)
FoodPalette == SelectSeq(COLORS, LAMBDA c : c # "GREY" /\ c # "BLACK")


-----------------------------------------------------------------------------
(* class ScoreTracker *)

newScoreTracker ==
    [ scores |-> << 0, 0, 0 >>, currentScore |-> 0, currentAttempt |-> 0, foodEatenCount |-> 0 ]

\* final variant: incrementFoodEaten()
incrementFoodEaten(t) ==
    [t EXCEPT !.foodEatenCount = @ + 1]

\* final variant: incrementScore(points)
incrementScore(t, points) ==
    [t EXCEPT !.currentScore = @ + points]

\* earlier variant: incrementScore()
incrementScoreEarlier(t) ==
    [t EXCEPT !.foodEatenCount = @ + 1, !.currentScore = t.foodEatenCount + 1]

\* mutant: the current score is carried into the new attempt
startNewAttemptKeepsScore(t, attemptNumber, previousScores) ==
    [ scores         |-> IF Len(previousScores) = 3 THEN previousScores ELSE t.scores,
      currentScore   |-> t.currentScore,
      currentAttempt |-> attemptNumber,
      foodEatenCount |-> 0 ]

\* final variant: startNewAttempt(attemptNumber, previousScores)
startNewAttempt(t, attemptNumber, previousScores) ==
    [ scores         |-> IF Len(previousScores) = 3 THEN previousScores ELSE t.scores,
      currentScore   |-> 0,
      currentAttempt |-> attemptNumber,
      foodEatenCount |-> 0 ]

\* earlier variant: startNewAttempt(attemptNumber)
startNewAttemptEarlier(t, attemptNumber) ==
    [t EXCEPT !.currentAttempt = attemptNumber, !.currentScore = 0, !.foodEatenCount = 0]

\* final variant: finalizeAttempt(), the tracker afterwards
finalizeAttempt(t) ==
    IF t.currentAttempt > 0 /\ t.currentAttempt <= 3
       /\ (t.currentScore > 0 \/ t.scores[t.currentAttempt] = 0)
    THEN [t EXCEPT !.scores[t.currentAttempt] = t.currentScore]
    ELSE t

\* earlier variant: finalizeAttempt(), the tracker afterwards
finalizeAttemptEarlier(t) ==
    IF t.currentAttempt > 0 /\ t.currentAttempt <= 3
    THEN [t EXCEPT !.scores[t.currentAttempt] = t.currentScore]
    ELSE t

\* mutant: points that grow with the length of the snake
pointsGrowWithLength(food, snakeLength) == 10 * (snakeLength - 3)

\* calculatePointsForFood(food, snakeLength)
calculatePointsForFood(food, snakeLength) == 10

-----------------------------------------------------------------------------
(* High score persistence *)

NoItem == -1

\* loadHighScore: the high score once the getItem promise has settled
loadHighScore(item) ==
    IF item # NoItem THEN item ELSE 0

\* saveHighScore(score): the pair <<highScore, persisted>> afterwards.
\* Neither variant calls it.
saveHighScore(score, hs, item) ==
    IF score > hs THEN << score, score >> ELSE << hs, item >>

-----------------------------------------------------------------------------
(* moveSnake *)

\* mutant: no wrap at the top edge
NextHeadUnwrappedTop(prev, wn) ==
    LET direction == DIRECTIONS[prev.direction]
        x0 == prev.snake[1].x + direction.x
        y0 == prev.snake[1].y + direction.y
        x1 == IF x0 < 0 THEN GRID_WIDTH(wn) - 1 ELSE x0
        x2 == IF x1 >= GRID_WIDTH(wn) THEN 0 ELSE x1
        y2 == IF y0 >= GRID_HEIGHT(wn) THEN 0 ELSE y0
    IN  [x |-> x2, y |-> y2]

\* mutant: the head stays in the top row and the left column instead of
\* re-entering at the opposite edge
NextHeadBounces(prev, wn) ==
    LET direction == DIRECTIONS[prev.direction]
        x0 == prev.snake[1].x + direction.x
        y0 == prev.snake[1].y + direction.y
        x1 == IF x0 < 0 THEN 0 ELSE x0
        x2 == IF x1 >= GRID_WIDTH(wn) THEN 0 ELSE x1
        y1 == IF y0 < 0 THEN 0 ELSE y0
        y2 == IF y1 >= GRID_HEIGHT(wn) THEN 0 ELSE y1
    IN  [x |-> x2, y |-> y2]

\* head + direction, wrapped at the four edges
NextHead(prev, wn) ==
    LET direction == DIRECTIONS[prev.direction]
        x0 == prev.snake[1].x + direction.x
        y0 == prev.snake[1].y + direction.y
        x1 == IF x0 < 0 THEN GRID_WIDTH(wn) - 1 ELSE x0
        x2 == IF x1 >= GRID_WIDTH(wn) THEN 0 ELSE x1
        y1 == IF y0 < 0 THEN GRID_HEIGHT(wn) - 1 ELSE y0
        y2 == IF y1 >= GRID_HEIGHT(wn) THEN 0 ELSE y1
    IN  [x |-> x2, y |-> y2]

\* mutant: the obstacle cells are not checked
CollidesWithSnakeOnly(prev, head, wn) ==
    \E n \in 1..Len(prev.snake) : prev.snake[n].x = head.x /\ prev.snake[n].y = head.y

\* mutant: the cells of the snake are not checked
CollidesWithObstaclesOnly(prev, head, wn) ==
    \E n \in 1..12 : generateObstacles(wn)[n].x = head.x /\ generateObstacles(wn)[n].y = head.y

\* mutant: the tail cell, which a move vacates, is not checked
CollidesButTail(prev, head, wn) ==
    \/ \E n \in 1..12 : generateObstacles(wn)[n].x = head.x /\ generateObstacles(wn)[n].y = head.y
    \/ \E n \in 1..(Len(prev.snake) - 1) : prev.snake[n].x = head.x /\ prev.snake[n].y = head.y

\* obstacles.some(...) || newSnake.some(...)
Collides(prev, head, wn) ==
    \/ \E n \in 1..12 : generateObstacles(wn)[n].x = head.x /\ generateObstacles(wn)[n].y = head.y
    \/ \E n \in 1..Len(prev.snake) : prev.snake[n].x = head.x /\ prev.snake[n].y = head.y

\* head.x === prevState.food.x && head.y === prevState.food.y
EatsFood(prev, head) ==
    head.x = prev.food.x /\ head.y = prev.food.y

\* mutant: the new speed without Math.max(50, ...)
newSpeedEarlierUnfloored(prev, newScore) ==
    LET speedReduction == IF newScore <= 10
                          THEN (newScore \div 5) * 20
                          ELSE (2 * 20) + ((newScore - 10) \div 5) * 8
    IN  prev.speed - speedReduction

\* earlier variant: speed after eating, from the new score
newSpeedEarlier(prev, newScore) ==
    LET speedReduction == IF newScore <= 10
                          THEN (newScore \div 5) * 20
                          ELSE (2 * 20) + ((newScore - 10) \div 5) * 8
        reduced == prev.speed - speedReduction
    IN  IF reduced < 50 THEN 50 ELSE reduced

\* mutant: each food shortens the interval by 20 ms
newSpeedTwentyFaster(prev) ==
    LET speedReduction == 20
        reduced == prev.speed - speedReduction
    IN  IF reduced < 50 THEN 50 ELSE reduced

\* final variant: speed after eating (speedReduction = 0)
newSpeed(prev) ==
    LET speedReduction == 0
        reduced == prev.speed - speedReduction
    IN  IF reduced < 50 THEN 50 ELSE reduced

\* mutant: the snake keeps its colour when it eats
AteStateKeepsColor(prev, head, newScore, speed, pos, roll) ==
    [prev EXCEPT !.snake = << head >> \o prev.snake,
                 !.score = newScore,
                 !.speed = speed,
                 !.food = [x |-> pos.x, y |-> pos.y, color |-> FoodPalette[roll + 1]]]

\* the state returned when the head lands on the food
AteState(prev, head, newScore, speed, pos, roll) ==
    [prev EXCEPT !.snake = << head >> \o prev.snake,
                 !.score = newScore,
                 !.speed = speed,
                 !.snakeColor = prev.food.color,
                 !.food = [x |-> pos.x, y |-> pos.y, color |-> FoodPalette[roll + 1]]]

\* mutant: the tail is not dropped
MovedStateKeepsTail(prev, head) ==
    [prev EXCEPT !.snake = << head >> \o prev.snake]

\* the state returned otherwise: newSnake.pop()
MovedState(prev, head) ==
    [prev EXCEPT !.snake = << head >> \o SubSeq(prev.snake, 1, Len(prev.snake) - 1)]

-----------------------------------------------------------------------------
(* handleGameOver *)

\* mutant: the minimum
Min3(a) ==
    LET m == IF a[1] <= a[2] THEN a[1] ELSE a[2]
    IN  IF m <= a[3] THEN m ELSE a[3]

\* Math.max(...scores)
Max3(a) ==
    LET m == IF a[1] >= a[2] THEN a[1] ELSE a[2]
    IN  IF m >= a[3] THEN m ELSE a[3]

\* the attemptScore message
scoreUpdate(currentAttemptNumber, scoreToSend, g, scoresToUse, hs) ==
    [ type          |-> "attemptScore",
      attemptNumber |-> currentAttemptNumber,
      score         |-> scoreToSend,
      attemptsLeft  |-> g.realAttemptsLeft - 1,
      allScores     |-> scoresToUse,
      isHighScore   |-> scoreToSend > hs ]

\* the finalScores message
finalScoreData(allScores, hs) ==
    [ type          |-> "finalScores",
      scores        |-> allScores,
      isComplete    |-> TRUE,
      highestScore  |-> Max3(allScores),
      attemptScores |-> [attempt1 |-> allScores[1], attempt2 |-> allScores[2], attempt3 |-> allScores[3]],
      allHighScores |-> [sessionHighScore |-> Max3(allScores), overallHighScore |-> hs] ]

\* mutant: the sends are made whether or not the host channel is there
PostedAlways(chan, g, update, final) ==
    << update >> \o (IF g.realAttemptsLeft <= 1 THEN << final >> ELSE << >>)

\* what the two sends post: the attemptScore message, then on the last attempt
\* the finalScores message; nothing without the host channel
Posted(chan, g, update, final) ==
    IF chan
    THEN << update >> \o (IF g.realAttemptsLeft <= 1 THEN << final >> ELSE << >>)
    ELSE << >>

\* mutant: the practice check of handleGameOver left out
reportsScoresAlways(g) ==
    TRUE

\* if (!gameState.isPractice): the branch that records and reports the score
reportsScores(g) ==
    ~g.isPractice

\* mutant: the attempt number without the - 1
attemptNumberOfShifted(g) ==
    3 - g.realAttemptsLeft

\* const currentAttemptNumber = 3 - (gameState.realAttemptsLeft - 1)
attemptNumberOf(g) ==
    3 - (g.realAttemptsLeft - 1)

\* mutant: the captured score alone, without the fallback to the tracker
scoreToSendCaptured(g, tr) ==
    g.score

\* final variant: Number(gameStateScore > 0 ? gameStateScore : trackerScore)
scoreToSend(g, tr) ==
    IF g.score > 0 THEN g.score ELSE tr.currentScore

\* earlier variant: const scoreToSend = gameStateScore
scoreToSendEarlier(g, tr) ==
    g.score

\* mutant: the record the tracker holds after finalizeAttempt
scoresToUseFinalized(tr, latest, currentAttemptNumber, score) ==
    finalizeAttempt(tr).scores

\* final variant: the copy of getAllScores(), the scores kept from latestScores
\* and the slot of this attempt overwritten
scoresToUse(tr, latest, currentAttemptNumber, score) ==
    LET preserved == [ i \in 1..3 |->
                         IF i # currentAttemptNumber /\ latest[i] > 0
                         THEN latest[i] ELSE tr.scores[i] ]
    IN  IF currentAttemptNumber > 0 /\ currentAttemptNumber <= 3
        THEN [preserved EXCEPT ![currentAttemptNumber] = score]
        ELSE preserved

\* earlier variant: the copy of getAllScores() with the slot of this attempt
\* overwritten
scoresToUseEarlier(tr, currentAttemptNumber, score) ==
    IF currentAttemptNumber > 0 /\ currentAttemptNumber <= 3
    THEN [tr.scores EXCEPT ![currentAttemptNumber] = score]
    ELSE tr.scores

\* final variant.  g, hs: the gameState and highScore the callback captured;
\* tr, latest: the refs.  Yields the refs afterwards, the messages posted and
\* the realScores the queued update writes (<< >> on the practice path, which
\* only sets gameOver).
handleGameOver(g, hs, tr, latest, chan) ==
    IF reportsScores(g)
    THEN LET currentAttemptNumber == attemptNumberOf(g)
             score == scoreToSend(g, tr)
             currentScores == scoresToUse(tr, latest, currentAttemptNumber, score)
         IN  [ scoreTracker |-> finalizeAttempt(tr),
               latestScores |-> currentScores,
               posted       |-> Posted(chan, g,
                                       scoreUpdate(currentAttemptNumber, score, g, currentScores, hs),
                                       finalScoreData(currentScores, hs)),
               realScores   |-> currentScores ]
    ELSE [ scoreTracker |-> tr, latestScores |-> latest, posted |-> << >>, realScores |-> << >> ]

\* earlier variant
handleGameOverEarlier(g, hs, tr, latest, chan) ==
    IF reportsScores(g)
    THEN LET currentAttemptNumber == attemptNumberOf(g)
             score == scoreToSendEarlier(g, tr)
             currentScores == scoresToUseEarlier(tr, currentAttemptNumber, score)
             finalScores == finalizeAttemptEarlier(tr)
         IN  [ scoreTracker |-> finalScores,
               latestScores |-> latest,
               posted       |-> Posted(chan, g,
                                       scoreUpdate(currentAttemptNumber, score, g, currentScores, hs),
                                       finalScoreData(finalScores.scores, hs)),
               realScores   |-> finalScores.scores ]
    ELSE [ scoreTracker |-> tr, latestScores |-> latest, posted |-> << >>, realScores |-> << >> ]

\* mutant: the updates that set gameOver alone (practice path, catch block)
\* are not queued
GameOverStateUnlessAlone(prev, realScores) ==
    IF realScores = << >>
    THEN prev
    ELSE [prev EXCEPT !.gameOver = TRUE, !.realScores = realScores]

\* the update handleGameOver queues, applied to the latest state
GameOverState(prev, realScores) ==
    IF realScores = << >>
    THEN [prev EXCEPT !.gameOver = TRUE]
    ELSE [prev EXCEPT !.gameOver = TRUE, !.realScores = realScores]

-----------------------------------------------------------------------------
(* handleGesture, swipeGesture, startGame, resetGame *)

opposites == [ UP |-> "DOWN", DOWN |-> "UP", LEFT |-> "RIGHT", RIGHT |-> "LEFT" ]

\* mutant: the requested direction is dropped
handleGestureLost(prevState, direction) ==
    prevState

\* mutant: the opposite-direction test left out
handleGestureUnguarded(prevState, direction) ==
    [prevState EXCEPT !.direction = direction]

\* the updater handleGesture(direction) queues
handleGesture(prevState, direction) ==
    IF prevState.direction = opposites[direction]
    THEN prevState
    ELSE [prevState EXCEPT !.direction = direction]

\* onEnd passes a decisive swipe on only when it is perpendicular to the
\* direction of the rendered state
swipeGesture(g, direction) ==
    IF direction \in { "LEFT", "RIGHT" }
    THEN g.direction \in { "UP", "DOWN" }
    ELSE g.direction \in { "LEFT", "RIGHT" }

startGame(prev) ==
    [prev EXCEPT !.showRules = FALSE]

\* mutant: the phase ends one attempt late (< 1 for <= 1)
resetBranchLate(prev) ==
    IF prev.isPractice /\ prev.practiceAttemptsLeft < 1 THEN "toReal"
    ELSE IF ~prev.isPractice /\ prev.realAttemptsLeft < 1 THEN "toRules"
    ELSE IF ~prev.isPractice THEN "nextReal"
    ELSE "nextPractice"

\* which of the four branches of resetGame is taken
resetBranch(prev) ==
    IF prev.isPractice /\ prev.practiceAttemptsLeft <= 1 THEN "toReal"
    ELSE IF ~prev.isPractice /\ prev.realAttemptsLeft <= 1 THEN "toRules"
    ELSE IF ~prev.isPractice THEN "nextReal"
    ELSE "nextPractice"

\* mutant: the first real attempt is stored as attempt 0
resetGameCountsFromZero(prev, carried) ==
    CASE resetBranch(prev) = "toReal" ->
            [initialState EXCEPT !.showRules = FALSE, !.isPractice = FALSE,
                                 !.practiceAttemptsLeft = 0, !.realAttemptsLeft = 3,
                                 !.realScores = << 0, 0, 0 >>, !.currentAttemptNumber = 0]
      [] resetBranch(prev) = "toRules" -> initialState
      [] resetBranch(prev) = "nextReal" ->
            [initialState EXCEPT !.showRules = FALSE, !.isPractice = FALSE,
                                 !.practiceAttemptsLeft = 0,
                                 !.realAttemptsLeft = prev.realAttemptsLeft - 1,
                                 !.realScores = carried,
                                 !.currentAttemptNumber = prev.currentAttemptNumber + 1]
      [] OTHER ->
            [initialState EXCEPT !.showRules = FALSE, !.isPractice = TRUE,
                                 !.practiceAttemptsLeft = prev.practiceAttemptsLeft - 1,
                                 !.realAttemptsLeft = 3,
                                 !.realScores = << 0, 0, 0 >>, !.currentAttemptNumber = 0]

\* mutant: the next real attempt takes realScores from the state it replaces
resetGameFromState(prev, carried) ==
    CASE resetBranch(prev) = "toReal" ->
            [initialState EXCEPT !.showRules = FALSE, !.isPractice = FALSE,
                                 !.practiceAttemptsLeft = 0, !.realAttemptsLeft = 3,
                                 !.realScores = << 0, 0, 0 >>, !.currentAttemptNumber = 1]
      [] resetBranch(prev) = "toRules" -> initialState
      [] resetBranch(prev) = "nextReal" ->
            [initialState EXCEPT !.showRules = FALSE, !.isPractice = FALSE,
                                 !.practiceAttemptsLeft = 0,
                                 !.realAttemptsLeft = prev.realAttemptsLeft - 1,
                                 !.realScores = prev.realScores,
                                 !.currentAttemptNumber = prev.currentAttemptNumber + 1]
      [] OTHER ->
            [initialState EXCEPT !.showRules = FALSE, !.isPractice = TRUE,
                                 !.practiceAttemptsLeft = prev.practiceAttemptsLeft - 1,
                                 !.realAttemptsLeft = 3,
                                 !.realScores = << 0, 0, 0 >>, !.currentAttemptNumber = 0]

\* mutant: the score of the last practice attempt is carried into the first
\* real attempt
resetGameKeepsScore(prev, carried) ==
    CASE resetBranch(prev) = "toReal" ->
            [initialState EXCEPT !.showRules = FALSE, !.isPractice = FALSE,
                                 !.practiceAttemptsLeft = 0, !.realAttemptsLeft = 3,
                                 !.realScores = << 0, 0, 0 >>, !.currentAttemptNumber = 1,
                                 !.score = prev.score]
      [] resetBranch(prev) = "toRules" -> initialState
      [] resetBranch(prev) = "nextReal" ->
            [initialState EXCEPT !.showRules = FALSE, !.isPractice = FALSE,
                                 !.practiceAttemptsLeft = 0,
                                 !.realAttemptsLeft = prev.realAttemptsLeft - 1,
                                 !.realScores = carried,
                                 !.currentAttemptNumber = prev.currentAttemptNumber + 1]
      [] OTHER ->
            [initialState EXCEPT !.showRules = FALSE, !.isPractice = TRUE,
                                 !.practiceAttemptsLeft = prev.practiceAttemptsLeft - 1,
                                 !.realAttemptsLeft = 3,
                                 !.realScores = << 0, 0, 0 >>, !.currentAttemptNumber = 0]

\* the state resetGame returns; latest is latestScores.current (final variant),
\* allScores is scoreTracker.getAllScores() after startNewAttempt (earlier variant)
resetGame(prev, carried) ==
    CASE resetBranch(prev) = "toReal" ->
            [initialState EXCEPT !.showRules = FALSE, !.isPractice = FALSE,
                                 !.practiceAttemptsLeft = 0, !.realAttemptsLeft = 3,
                                 !.realScores = << 0, 0, 0 >>, !.currentAttemptNumber = 1]
      [] resetBranch(prev) = "toRules" -> initialState
      [] resetBranch(prev) = "nextReal" ->
            [initialState EXCEPT !.showRules = FALSE, !.isPractice = FALSE,
                                 !.practiceAttemptsLeft = 0,
                                 !.realAttemptsLeft = prev.realAttemptsLeft - 1,
                                 !.realScores = carried,
                                 !.currentAttemptNumber = prev.currentAttemptNumber + 1]
      [] OTHER ->
            [initialState EXCEPT !.showRules = FALSE, !.isPractice = TRUE,
                                 !.practiceAttemptsLeft = prev.practiceAttemptsLeft - 1,
                                 !.realAttemptsLeft = 3,
                                 !.realScores = << 0, 0, 0 >>, !.currentAttemptNumber = 0]

\* the ScoreTracker after resetGame
resetTracker(prev, tr, latest, v) ==
    CASE resetBranch(prev) \in { "toReal", "toRules" } -> newScoreTracker
      [] resetBranch(prev) = "nextReal" ->
            IF v = "final"
            THEN startNewAttempt(tr, prev.currentAttemptNumber + 1, latest)
            ELSE startNewAttemptEarlier(tr, prev.currentAttemptNumber + 1)
      [] OTHER -> tr

\* mutant: latestScores survives the reset that ends the session
resetLatestKeptOnReplay(prev, latest, v) ==
    IF v = "final" /\ resetBranch(prev) = "toReal" THEN << 0, 0, 0 >> ELSE latest

\* latestScores.current after resetGame (final variant)
resetLatest(prev, latest, v) ==
    IF v = "final" /\ resetBranch(prev) \in { "toReal", "toRules" } THEN << 0, 0, 0 >> ELSE latest

\* expectedScore.current after resetGame (final variant)
resetExpected(prev, expected, v) ==
    IF v = "final" /\ resetBranch(prev) \in { "toReal", "toRules" } THEN 0 ELSE expected

-----------------------------------------------------------------------------
(* The tick effect: useEffect(..., [gameState.speed, gameState.gameOver]) *)

\* no direction has been requested in the attempt
NoRequest == "NONE"

NoTimer == [ armed |-> FALSE, cap |-> initialState, capHigh |-> 0 ]

EffectDeps(g) == << g.speed, g.gameOver >>

\* the interval after the effect has caught up with the rendered state g:
\* cleanup clears the old interval, and a new one is set unless gameOver
tickEffect(t, g, hs, deps) ==
    IF EffectDeps(g) = deps THEN t
    ELSE IF ~g.gameOver THEN [ armed |-> TRUE, cap |-> g, capHigh |-> hs ]
    ELSE NoTimer

-----------------------------------------------------------------------------
(* Initial states *)

InitWith(v, chan, wn, item) ==
    /\ win = wn
    /\ variant = v
    /\ hasChannel = chan
    /\ gameState = initialState
    /\ persisted = item
    /\ highScore = loadHighScore(item)
    /\ scoreTracker = newScoreTracker
    /\ latestScores = << 0, 0, 0 >>
    /\ expectedScore = 0
    /\ timer = NoTimer
    /\ effDeps = << >>
    /\ sent = << >>
    /\ stage = 1
    /\ eaten = 0
    /\ finals = << 0, 0, 0 >>
    /\ ticks = 0
    /\ turns = 0
    /\ request = NoRequest

Init ==
    \E wn \in Windows, item \in StoredHighScores : InitWith("final", TRUE, wn, item)

InitEarlier ==
    \E wn \in Windows, item \in StoredHighScores : InitWith("earlier", TRUE, wn, item)

-----------------------------------------------------------------------------
(* Actions *)

\* every update is preceded by the pending run of the tick effect
EffectsFlushed ==
    /\ timer' = tickEffect(timer, gameState, highScore, effDeps)
    /\ effDeps' = EffectDeps(gameState)

\* the tick effect runs while nothing else happens
RunEffect ==
    /\ EffectDeps(gameState) # effDeps
    /\ EffectsFlushed
    /\ UNCHANGED << win, variant, hasChannel, gameState, highScore, persisted, scoreTracker,
                    latestScores, expectedScore, sent, stage, eaten, finals, ticks, turns,
                    request >>

\* a tick whose head hits an obstacle or the snake: handleGameOver() of the
\* callback's render, return prevState, then the queued gameOver update
TickCollides ==
    LET head == NextHead(gameState, win)
        over == IF variant = "final"
                THEN handleGameOver(timer.cap, timer.capHigh, scoreTracker, latestScores, hasChannel)
                ELSE handleGameOverEarlier(timer.cap, timer.capHigh, scoreTracker, latestScores, hasChannel)
    IN  /\ timer.armed
        /\ Collides(gameState, head, win)
        /\ EffectsFlushed
        /\ gameState' = GameOverState(gameState, over.realScores)
        /\ scoreTracker' = over.scoreTracker
        /\ latestScores' = over.latestScores
        /\ sent' = sent \o over.posted
        /\ finals' = IF stage \in 4..6 THEN [finals EXCEPT ![stage - 3] = gameState.score] ELSE finals
        /\ ticks' = ticks + 1
        /\ UNCHANGED << win, variant, hasChannel, highScore, persisted, expectedScore,
                        stage, eaten, turns, request >>

\* a tick whose head lands on the food
TickEats ==
    LET head == NextHead(gameState, win)
        pointsEarned == calculatePointsForFood(gameState.food, Len(gameState.snake) + 1)
        tracked == IF variant = "final"
                   THEN incrementFoodEaten(IF ~gameState.isPractice
                                           THEN incrementScore(scoreTracker, pointsEarned)
                                           ELSE scoreTracker)
                   ELSE IF ~gameState.isPractice
                        THEN incrementScoreEarlier(scoreTracker)
                        ELSE scoreTracker
        newScore == IF ~gameState.isPractice
                    THEN tracked.currentScore
                    ELSE gameState.score + (IF variant = "final" THEN pointsEarned ELSE 1)
        speed == IF variant = "final" THEN newSpeed(gameState) ELSE newSpeedEarlier(gameState, newScore)
    IN  /\ timer.armed
        /\ ticks < MaxTicks
        /\ ~Collides(gameState, head, win)
        /\ EatsFood(gameState, head)
        /\ EffectsFlushed
        /\ \E pos \in getRandomPosition(win), roll \in ColorRolls :
               gameState' = AteState(gameState, head, newScore, speed, pos, roll)
        /\ scoreTracker' = tracked
        /\ expectedScore' = IF variant = "final" /\ ~gameState.isPractice
                            THEN expectedScore + pointsEarned ELSE expectedScore
        /\ eaten' = eaten + 1
        /\ ticks' = ticks + 1
        /\ UNCHANGED << win, variant, hasChannel, highScore, persisted, latestScores,
                        sent, stage, finals, turns, request >>

\* any other tick
TickMoves ==
    LET head == NextHead(gameState, win)
    IN  /\ timer.armed
        /\ ticks < MaxTicks
        /\ ~Collides(gameState, head, win)
        /\ ~EatsFood(gameState, head)
        /\ EffectsFlushed
        /\ gameState' = MovedState(gameState, head)
        /\ ticks' = ticks + 1
        /\ UNCHANGED << win, variant, hasChannel, highScore, persisted, scoreTracker,
                        latestScores, expectedScore, sent, stage, eaten, finals, turns,
                        request >>

\* a decisive swipe on the board (shown when the rules screen is not, and
\* covered by the game-over overlay)
Swipe ==
    \E direction \in DirectionNames :
        /\ ~gameState.showRules
        /\ ~gameState.gameOver
        /\ turns < MaxTurns
        /\ swipeGesture(gameState, direction)
        /\ EffectsFlushed
        /\ gameState' = handleGesture(gameState, direction)
        /\ turns' = turns + 1
        /\ request' = direction
        /\ UNCHANGED << win, variant, hasChannel, highScore, persisted, scoreTracker,
                        latestScores, expectedScore, sent, stage, eaten, finals, ticks >>

\* the PLAY! button of the rules screen
StartGame ==
    /\ gameState.showRules
    /\ EffectsFlushed
    /\ gameState' = startGame(gameState)
    /\ UNCHANGED << win, variant, hasChannel, highScore, persisted, scoreTracker,
                    latestScores, expectedScore, sent, stage, eaten, finals, ticks, turns,
                    request >>

\* the button of the game-over overlay (Try Again, Start Real Game, LEADERBOARD)
ResetGame ==
    LET tracked == resetTracker(gameState, scoreTracker, latestScores, variant)
        carried == IF variant = "final" THEN latestScores ELSE tracked.scores
    IN  /\ ~gameState.showRules
        /\ gameState.gameOver
        /\ EffectsFlushed
        /\ gameState' = resetGame(gameState, carried)
        /\ scoreTracker' = tracked
        /\ latestScores' = resetLatest(gameState, latestScores, variant)
        /\ expectedScore' = resetExpected(gameState, expectedScore, variant)
        /\ sent' = << >>
        /\ stage' = IF stage = 6 THEN 1 ELSE stage + 1
        /\ finals' = IF stage = 6 THEN << 0, 0, 0 >> ELSE finals
        /\ eaten' = 0
        /\ ticks' = 0
        /\ turns' = 0
        /\ request' = NoRequest
        /\ UNCHANGED << win, variant, hasChannel, highScore, persisted >>

Next ==
    \/ RunEffect
    \/ TickCollides
    \/ TickEats
    \/ TickMoves
    \/ Swipe
    \/ StartGame
    \/ ResetGame

Spec == Init /\ [][Next]_vars

SpecEarlier == InitEarlier /\ [][Next]_vars

\* both variants
SpecBoth == (Init \/ InitEarlier) /\ [][Next]_vars

\* A state of practice attempt 1 in the 400 x 380 window, reached from Init by
\* five ticks, a swipe DOWN, five ticks (the fifth eats the food at (10, 10),
\* the new food lands on (10, 11)), a swipe RIGHT and a tick.
MidGameState(v) ==
    [initialState EXCEPT
        !.snake = << [x |-> 11, y |-> 10], [x |-> 10, y |-> 10], [x |-> 10, y |-> 9], [x |-> 10, y |-> 8] >>,
        !.food = [x |-> 10, y |-> 11, color |-> "RED"],
        !.score = IF v = "final" THEN 10 ELSE 1,
        !.showRules = FALSE]

\* the exploration continued from MidGameState, with the counts started anew
InitMidGame ==
    \E v \in { "final", "earlier" }, item \in StoredHighScores :
        /\ win = [w |-> 400, h |-> 380]
        /\ variant = v
        /\ hasChannel = TRUE
        /\ gameState = MidGameState(v)
        /\ persisted = item
        /\ highScore = loadHighScore(item)
        /\ scoreTracker = IF v = "final" THEN incrementFoodEaten(newScoreTracker) ELSE newScoreTracker
        /\ latestScores = << 0, 0, 0 >>
        /\ expectedScore = 0
        /\ timer = [ armed |-> TRUE, cap |-> initialState, capHigh |-> loadHighScore(item) ]
        /\ effDeps = << 200, FALSE >>
        /\ sent = << >>
        /\ stage = 1
        /\ eaten = 1
        /\ finals = << 0, 0, 0 >>
        /\ ticks = 0
        /\ turns = 0
        /\ request = NoRequest

SpecMidGame == InitMidGame /\ [][Next]_vars

-----------------------------------------------------------------------------
(* Notions the properties use *)

\* the place of the attempt a state is in, in the order practice 1, 2, 3,
\* real 1, 2, 3, read from the attempt counters
Position(g) ==
    IF g.isPractice THEN 4 - g.practiceAttemptsLeft ELSE 7 - g.realAttemptsLeft

AttemptScoreMsgs == SelectSeq(sent, LAMBDA m : m.type = "attemptScore")

FinalScoresMsgs == SelectSeq(sent, LAMBDA m : m.type = "finalScores")

\* a real attempt, by the count of attempts begun, has ended
RealAttemptOver == stage \in 4..6 /\ gameState.gameOver

-----------------------------------------------------------------------------
(* C1 *)

\* C1: the attempts of a session occur in the order practice 1, 2, 3, real 1,
\* 2, 3: in every step the attempt counters name the attempt whose ordinal is
\* the number of attempts begun (stage); the attempt changes only from a
\* game-over state with the board shown (the reset button), by one place; no
\* counter leaves 1..3 in its phase; the start action shows practice 1; and
\* the reset after the third real attempt (LEADERBOARD) returns to the rules.
C1_AttemptOrder ==
    [][ /\ stage' \in 1..6
        /\ Position(gameState') = stage'
        /\ gameState'.isPractice => gameState'.practiceAttemptsLeft \in 1..3
        /\ ~gameState'.isPractice => gameState'.realAttemptsLeft \in 1..3
        /\ stage' # stage =>
              /\ gameState.gameOver /\ ~gameState.showRules
              /\ Position(gameState') = IF Position(gameState) = 6 THEN 1 ELSE Position(gameState) + 1
        /\ (gameState.showRules /\ ~gameState'.showRules) => Position(gameState') = 1
        /\ (Position(gameState) = 6 /\ stage' # stage) => gameState' = initialState
        /\ gameState'.showRules => Position(gameState') = 1
      ]_vars

\* the third real attempt has ended: the overlay offers LEADERBOARD
C1_Witness ==
    /\ stage = 6 /\ gameState.gameOver
    /\ ~gameState.isPractice /\ gameState.realAttemptsLeft = 1

-----------------------------------------------------------------------------
(* C2 *)

\* C2: nothing is posted to the host on the rules screen or by the game-over
\* of a practice attempt: whenever a message has been posted since the attempt
\* began, the attempt is a real one (by the count of attempts and by the
\* phase flag) and it is over.
C2_NoPracticeReport ==
    sent # << >> => (stage \in 4..6 /\ ~gameState.isPractice /\ gameState.gameOver)

\* a practice attempt that scored has ended and nothing was posted
C2_Witness ==
    /\ stage \in 1..3 /\ gameState.gameOver /\ ~gameState.showRules
    /\ gameState.score > 0 /\ hasChannel /\ sent = << >>

-----------------------------------------------------------------------------
(* C3 *)

\* C3: with the host channel present, the game-over of a real attempt has
\* posted exactly one attemptScore message, and a running real attempt none.
C3_ExactlyOneAttemptScore ==
    (hasChannel /\ stage \in 4..6) =>
        Len(AttemptScoreMsgs) = IF gameState.gameOver THEN 1 ELSE 0

-----------------------------------------------------------------------------
(* C4 *)

\* C4: every attemptScore message posted by the k-th real attempt carries
\* attemptNumber = k and attemptsLeft = 3 - k.
C4_AttemptNumber ==
    \A i \in 1..Len(sent) :
        sent[i].type = "attemptScore" =>
            /\ sent[i].attemptNumber = stage - 3
            /\ sent[i].attemptsLeft = 3 - (stage - 3)

\* the third real attempt has reported, as attempt 3 with 0 attempts left
C4_Witness ==
    /\ stage = 6 /\ AttemptScoreMsgs # << >>
    /\ AttemptScoreMsgs[1].attemptNumber = 3 /\ AttemptScoreMsgs[1].attemptsLeft = 0

-----------------------------------------------------------------------------
(* C5 *)

\* C5: in the final variant the score of every attemptScore message is 10
\* times the number of foods eaten in the attempt that posted it.
C5_ScoreIsTenPerFood ==
    variant = "final" =>
        \A i \in 1..Len(sent) :
            sent[i].type = "attemptScore" => sent[i].score = 10 * eaten

\* a real attempt that ate has reported, from a callback that captured score 0
C5_Witness ==
    /\ variant = "final" /\ RealAttemptOver /\ eaten > 0
    /\ AttemptScoreMsgs # << >> /\ AttemptScoreMsgs[1].score = 10 * eaten
    /\ timer.cap.score = 0

-----------------------------------------------------------------------------
(* C6 *)

\* C6: in the final variant, in the allScores of every attemptScore message of
\* real attempt k, slot k is the score of that attempt (as reported and as it
\* stood at the collision), slots before k are the scores the earlier real
\* attempts ended with, and slots after k are 0.
C6_RecordAppendOnly ==
    variant = "final" =>
        \A i \in 1..Len(sent) :
            sent[i].type = "attemptScore" =>
                /\ sent[i].allScores[stage - 3] = sent[i].score
                /\ \A j \in 1..3 :
                      sent[i].allScores[j] = IF j <= stage - 3 THEN finals[j] ELSE 0

\* the third report, after a first attempt that scored and a second that did not
C6_Witness ==
    /\ variant = "final" /\ stage = 6 /\ AttemptScoreMsgs # << >>
    /\ finals[1] > 0 /\ finals[2] = 0 /\ finals[3] > 0
    /\ AttemptScoreMsgs[1].allScores = finals

-----------------------------------------------------------------------------
(* C7 *)

\* C7: with the host channel present, finalScores is posted exactly once per
\* session: only by the game-over of the third real attempt, exactly once
\* there, and right after an attemptScore message.
C7_FinalScoresOnce ==
    hasChannel =>
        /\ Len(FinalScoresMsgs) = IF stage = 6 /\ gameState.gameOver THEN 1 ELSE 0
        /\ \A i \in 1..Len(sent) :
              sent[i].type = "finalScores" => (i > 1 /\ sent[i - 1].type = "attemptScore")

-----------------------------------------------------------------------------
(* C8 *)

\* C8: in the final variant every finalScores message has scores equal to the
\* scores the three real attempts ended with, attemptScores equal to them slot
\* by slot, isComplete true, highestScore and sessionHighScore equal to their
\* maximum, and scores equal to the allScores of the attemptScore message
\* posted just before it.
C8_FinalScoresContent ==
    variant = "final" =>
        \A i \in 1..Len(sent) :
            sent[i].type = "finalScores" =>
                /\ sent[i].scores = finals
                /\ sent[i].attemptScores = [attempt1 |-> finals[1], attempt2 |-> finals[2], attempt3 |-> finals[3]]
                /\ sent[i].isComplete
                /\ \A j \in 1..3 : sent[i].highestScore >= finals[j]
                /\ \E j \in 1..3 : sent[i].highestScore = finals[j]
                /\ sent[i].allHighScores.sessionHighScore = sent[i].highestScore
                /\ i > 1 /\ sent[i - 1].type = "attemptScore"
                /\ sent[i - 1].allScores = sent[i].scores

\* a finalScores message whose maximum is the first attempt's score
C8_Witness ==
    /\ variant = "final" /\ FinalScoresMsgs # << >>
    /\ finals[1] > 0 /\ finals[3] = 0
    /\ FinalScoresMsgs[1].highestScore = finals[1]

-----------------------------------------------------------------------------
(* C9 *)

\* C9: after a game-over the in-memory high score and the persisted value are
\* at least the score of the attempt that just ended.
C9_HighScoreKept ==
    (gameState.gameOver /\ ~gameState.showRules) =>
        (highScore >= gameState.score /\ persisted >= gameState.score)

-----------------------------------------------------------------------------
(* C10 *)

\* the head plus the direction, modulo the grid
CandidateHead(g) ==
    [ x |-> (g.snake[1].x + DIRECTIONS[g.direction].x + GRID_WIDTH(win)) % GRID_WIDTH(win),
      y |-> (g.snake[1].y + DIRECTIONS[g.direction].y + GRID_HEIGHT(win)) % GRID_HEIGHT(win) ]

\* the candidate head is an obstacle cell or a cell of the snake, tail included
CandidateHits(g) ==
    \/ \E n \in 1..12 : generateObstacles(win)[n] = CandidateHead(g)
    \/ \E n \in 1..Len(g.snake) : g.snake[n] = CandidateHead(g)

\* MidGameState is a state of Spec (checked as reachable under Spec)
MidGameReached ==
    /\ gameState = MidGameState(variant)
    /\ timer = [ armed |-> TRUE, cap |-> initialState, capHigh |-> highScore ]
    /\ scoreTracker = (IF variant = "final" THEN incrementFoodEaten(newScoreTracker) ELSE newScoreTracker)
    /\ stage = 1 /\ eaten = 1

\* C10: a tick whose candidate head is an obstacle cell or any cell of the
\* snake (the tail cell included) leaves snake, food, score, speed, direction
\* and snake colour as they were and sets gameOver.
C10_FatalTickFrame ==
    [][ (ticks' = ticks + 1 /\ CandidateHits(gameState)) =>
            /\ gameState'.gameOver
            /\ gameState'.snake = gameState.snake
            /\ gameState'.food = gameState.food
            /\ gameState'.score = gameState.score
            /\ gameState'.speed = gameState.speed
            /\ gameState'.direction = gameState.direction
            /\ gameState'.snakeColor = gameState.snakeColor
      ]_vars

\* an attempt ended by a tick onto the tail cell
C10_Witness ==
    /\ gameState.gameOver /\ ticks > 0
    /\ Len(gameState.snake) >= 4
    /\ CandidateHead(gameState) = gameState.snake[Len(gameState.snake)]

-----------------------------------------------------------------------------
(* handleGesture as a function of the stored direction and the request *)

\* the state attempt k of a session starts in, k = 1..6 in the order practice
\* 1, 2, 3, real 1, 2, 3: startGame for the first, resetGame for the others
RECURSIVE AttemptStart(_)
AttemptStart(k) ==
    IF k = 1
    THEN startGame(initialState)
    ELSE resetGame([AttemptStart(k - 1) EXCEPT !.gameOver = TRUE], << 0, 0, 0 >>)

\* the states handleGesture is applied to: the start of each attempt, with
\* each of the four directions stored (swipes before the first tick reach them)
InitGesture ==
    \E k \in 1..6, c \in DirectionNames, wn \in Windows, item \in StoredHighScores :
        /\ win = wn
        /\ variant = "final"
        /\ hasChannel = TRUE
        /\ gameState = [AttemptStart(k) EXCEPT !.direction = c]
        /\ persisted = item
        /\ highScore = loadHighScore(item)
        /\ scoreTracker = IF k \in 5..6
                          THEN startNewAttempt(newScoreTracker, k - 3, << 0, 0, 0 >>)
                          ELSE newScoreTracker
        /\ latestScores = << 0, 0, 0 >>
        /\ expectedScore = 0
        /\ timer = [ armed |-> TRUE, cap |-> AttemptStart(k), capHigh |-> loadHighScore(item) ]
        /\ effDeps = << 200, FALSE >>
        /\ sent = << >>
        /\ stage = k
        /\ eaten = 0
        /\ finals = << 0, 0, 0 >>
        /\ ticks = 0
        /\ turns = 0
        /\ request = NoRequest

\* handleGesture(direction) called with any direction, whatever is stored
Gesture ==
    \E direction \in DirectionNames :
        /\ ~gameState.showRules
        /\ ~gameState.gameOver
        /\ turns < MaxTurns
        /\ EffectsFlushed
        /\ gameState' = handleGesture(gameState, direction)
        /\ turns' = turns + 1
        /\ request' = direction
        /\ UNCHANGED << win, variant, hasChannel, highScore, persisted, scoreTracker,
                        latestScores, expectedScore, sent, stage, eaten, finals, ticks >>

NextGesture == Gesture

SpecGesture == InitGesture /\ [][NextGesture]_vars

-----------------------------------------------------------------------------
(* C11 *)

\* r is the exact opposite of c: the two unit vectors cancel
IsReverse(r, c) ==
    /\ DIRECTIONS[r].x + DIRECTIONS[c].x = 0
    /\ DIRECTIONS[r].y + DIRECTIONS[c].y = 0

\* C11: a direction request r made while direction c is stored leaves the
\* stored direction c when r is the exact opposite of c and sets it to r
\* otherwise, and changes no other field of the game state.
C11_DirectionRequest ==
    [][ turns' = turns + 1 =>
            /\ request' \in DirectionNames
            /\ gameState'.direction = IF IsReverse(request', gameState.direction)
                                      THEN gameState.direction
                                      ELSE request'
            /\ gameState' = [gameState EXCEPT !.direction = gameState'.direction]
      ]_vars

\* a request for the exact opposite of the stored direction has been made
C11_Witness ==
    /\ turns > 0 /\ request \in DirectionNames
    /\ IsReverse(request, gameState.direction)

-----------------------------------------------------------------------------
(* C12 *)

\* C12: no tick after the first of an attempt moves the head onto the segment
\* directly behind it, that is, in the exact opposite of the direction the
\* previous tick moved in, whatever requests were accepted in between.
C12_NoReversal ==
    [][ (ticks' = ticks + 1 /\ ticks > 0 /\ ~gameState.gameOver) =>
            CandidateHead(gameState) # gameState.snake[2]
      ]_vars

-----------------------------------------------------------------------------
(* C13 *)

-----------------------------------------------------------------------------
(* C14 *)

\* A state of practice attempt 1 in the 400 x 380 window, reached from Init by
\* the start action and four ticks.  Every edge of the 20 x 15 grid is within
\* MaxTicks ticks and MaxTurns swipes of it.
EdgeStartState ==
    [initialState EXCEPT
        !.snake = << [x |-> 9, y |-> 5], [x |-> 8, y |-> 5], [x |-> 7, y |-> 5] >>,
        !.showRules = FALSE]

\* the exploration continued from EdgeStartState, with the counts started anew
InitFourEdges ==
    \E v \in { "final", "earlier" }, item \in StoredHighScores :
        /\ win = [w |-> 400, h |-> 380]
        /\ variant = v
        /\ hasChannel = TRUE
        /\ gameState = EdgeStartState
        /\ persisted = item
        /\ highScore = loadHighScore(item)
        /\ scoreTracker = newScoreTracker
        /\ latestScores = << 0, 0, 0 >>
        /\ expectedScore = 0
        /\ timer = [ armed |-> TRUE, cap |-> initialState, capHigh |-> loadHighScore(item) ]
        /\ effDeps = << 200, FALSE >>
        /\ sent = << >>
        /\ stage = 1
        /\ eaten = 0
        /\ finals = << 0, 0, 0 >>
        /\ ticks = 0
        /\ turns = 0
        /\ request = NoRequest

SpecFourEdges == InitFourEdges /\ [][Next]_vars

\* EdgeStartState is a state of Spec and of SpecEarlier (checked as reachable)
EdgeStartReached ==
    /\ gameState = EdgeStartState
    /\ win = [w |-> 400, h |-> 380]
    /\ timer = [ armed |-> TRUE, cap |-> initialState, capHigh |-> highScore ]
    /\ effDeps = << 200, FALSE >>
    /\ scoreTracker = newScoreTracker
    /\ stage = 1 /\ eaten = 0 /\ turns = 0 /\ sent = << >>

\* the head has crossed the named edge since the last tick
CrossedRight == gameState.snake[1].x = 0 /\ gameState.snake[2].x = GRID_WIDTH(win) - 1
CrossedLeft == gameState.snake[1].x = GRID_WIDTH(win) - 1 /\ gameState.snake[2].x = 0
CrossedBottom == gameState.snake[1].y = 0 /\ gameState.snake[2].y = GRID_HEIGHT(win) - 1
CrossedTop == gameState.snake[1].y = GRID_HEIGHT(win) - 1 /\ gameState.snake[2].y = 0

\* C14: the head a tick writes is the old head plus the direction, modulo the
\* grid in both axes; a tick ends the attempt only if that cell is an obstacle
\* cell or a snake cell, so crossing an edge by itself never does.
C14_ToroidalBoard ==
    [][ ticks' = ticks + 1 =>
            /\ ~CandidateHits(gameState) =>
                    /\ gameState'.snake[1] = CandidateHead(gameState)
                    /\ gameState'.gameOver = gameState.gameOver
            /\ (gameState'.gameOver /\ ~gameState.gameOver) => CandidateHits(gameState)
      ]_vars

\* the head has left the grid at the right edge and re-entered at the left,
\* in the same row, and the attempt goes on
C14_Witness ==
    /\ ticks > 0 /\ ~gameState.gameOver
    /\ CrossedRight
    /\ gameState.snake[1].y = gameState.snake[2].y

-----------------------------------------------------------------------------
(* C15 *)

\* the candidate head is the food cell
HeadOnFood(g) ==
    CandidateHead(g).x = g.food.x /\ CandidateHead(g).y = g.food.y

\* C15: a non-fatal tick onto the food prepends the new head and keeps the
\* tail (length + 1); any other non-fatal tick prepends the new head and drops
\* the tail (length unchanged); within an attempt the length never decreases.
C15_SnakeLength ==
    [][ /\ (ticks' = ticks + 1 /\ ~CandidateHits(gameState) /\ HeadOnFood(gameState)) =>
               /\ gameState'.snake = << CandidateHead(gameState) >> \o gameState.snake
               /\ Len(gameState'.snake) = Len(gameState.snake) + 1
        /\ (ticks' = ticks + 1 /\ ~CandidateHits(gameState) /\ ~HeadOnFood(gameState)) =>
               /\ gameState'.snake = << CandidateHead(gameState) >>
                                       \o SubSeq(gameState.snake, 1, Len(gameState.snake) - 1)
               /\ Len(gameState'.snake) = Len(gameState.snake)
        /\ stage' = stage => Len(gameState'.snake) >= Len(gameState.snake)
      ]_vars

\* the snake has eaten the first food and moved on by one tick: four
\* segments, the cell where it ate now behind the head
C15_Witness ==
    /\ eaten = 1 /\ Len(gameState.snake) = 4 /\ ~gameState.gameOver
    /\ gameState.snake[2] = [x |-> initialState.food.x, y |-> initialState.food.y]

-----------------------------------------------------------------------------
(* C16 *)

\* C16: in the final variant, in practice and real attempts alike, a tick
\* that eats adds exactly 10 to the score, every other step within the
\* attempt leaves the score as it is, and the score is 10 times the number of
\* foods eaten in the attempt.
C16_ScoreStepsByTen ==
    [][ variant = "final" =>
            LET eats == /\ ticks' = ticks + 1
                        /\ ~CandidateHits(gameState)
                        /\ HeadOnFood(gameState)
            IN  /\ eats => gameState'.score = gameState.score + 10
                /\ (stage' = stage /\ ~eats) => gameState'.score = gameState.score
                /\ gameState'.score = 10 * eaten'
      ]_vars

\* a real attempt in which two foods have been eaten
C16_Witness ==
    /\ variant = "final" /\ stage \in 4..6 /\ ~gameState.isPractice
    /\ eaten = 2 /\ gameState.score = 20

\* a practice attempt in which two foods have been eaten
PracticeScoredTwice ==
    /\ variant = "final" /\ stage \in 1..3 /\ gameState.isPractice
    /\ eaten = 2 /\ gameState.score = 20

-----------------------------------------------------------------------------
(* C17 *)

\* C17: every reset that starts a new attempt (it does not return to the
\* rules screen) yields score 0, a current score of 0 in the ScoreTracker, the
\* initial snake, food, direction, speed and snake colour, and gameOver =
\* false; and no step changes the obstacle set, which stays the one generated
\* from the window at load.
C17_FreshAttempt ==
    [][ /\ (stage' # stage /\ ~gameState'.showRules) =>
               /\ gameState'.score = 0
               /\ scoreTracker'.currentScore = 0
               /\ gameState'.snake = initialState.snake
               /\ gameState'.food = initialState.food
               /\ gameState'.direction = "RIGHT"
               /\ gameState'.speed = initialState.speed
               /\ gameState'.snakeColor = initialState.snakeColor
               /\ ~gameState'.gameOver
        /\ generateObstacles(win') = generateObstacles(win)
      ]_vars

\* the second real attempt has just started, after a first that scored
C17_Witness ==
    /\ stage = 5 /\ ticks = 0 /\ ~gameState.gameOver /\ finals[1] > 0
    /\ gameState.score = 0 /\ scoreTracker.currentScore = 0
    /\ gameState.snake = initialState.snake

-----------------------------------------------------------------------------
(* C18 *)

\* the numbers a message of the real phase may carry: 0 and the scores the
\* real attempts of the session stood at when they collided
RealPhaseScores == { 0, finals[1], finals[2], finals[3] }

\* C18: the first real attempt starts with an all-zero score record (in the
\* game state, the ScoreTracker and latestScores) and a zero score; its
\* attemptScore messages carry 10 times the foods eaten in it and the record
\* with only slot 1 filled; and every score in any message is 0 or the score
\* of a real attempt of the session, never one of a practice attempt.
C18_NoPracticePoints ==
    /\ (stage = 4 /\ ticks = 0 /\ ~gameState.gameOver) =>
           /\ gameState.score = 0
           /\ gameState.realScores = << 0, 0, 0 >>
           /\ scoreTracker.scores = << 0, 0, 0 >>
           /\ scoreTracker.currentScore = 0
           /\ variant = "final" => (latestScores = << 0, 0, 0 >> /\ expectedScore = 0)
    /\ \A i \in 1..Len(sent) :
           /\ sent[i].type = "attemptScore" =>
                  /\ sent[i].score \in RealPhaseScores
                  /\ \A j \in 1..3 : sent[i].allScores[j] \in RealPhaseScores
                  /\ stage = 4 => /\ sent[i].score = 10 * eaten
                                  /\ sent[i].allScores = << 10 * eaten, 0, 0 >>
           /\ sent[i].type = "finalScores" =>
                  \A j \in 1..3 : sent[i].scores[j] \in RealPhaseScores

\* the first real attempt has ended without eating and reported a zero score
\* and an all-zero record
C18_Witness ==
    /\ stage = 4 /\ gameState.gameOver /\ eaten = 0 /\ AttemptScoreMsgs # << >>
    /\ AttemptScoreMsgs[1].score = 0
    /\ AttemptScoreMsgs[1].allScores = << 0, 0, 0 >>

\* the last practice attempt has ended with points scored (the state the
\* reset into the first real attempt is taken from)
PracticeEndsWithPoints ==
    /\ stage = 3 /\ gameState.gameOver /\ gameState.isPractice /\ gameState.score > 0

-----------------------------------------------------------------------------
(* C19 *)

\* C19: the reset taken after the third real attempt (replay) yields the
\* initial state: rules screen shown, practice phase, 3 practice and 3 real
\* attempts left, zero score record and score; and it zeroes the ScoreTracker,
\* latestScores and expectedScore, so that the second session starts from what
\* the first started from.
C19_ReplayIsFullReset ==
    [][ (stage = 6 /\ stage' = 1) =>
            /\ gameState' = initialState
            /\ gameState'.showRules /\ gameState'.isPractice
            /\ gameState'.practiceAttemptsLeft = 3 /\ gameState'.realAttemptsLeft = 3
            /\ gameState'.realScores = << 0, 0, 0 >> /\ gameState'.score = 0
            /\ scoreTracker' = [ scores |-> << 0, 0, 0 >>, currentScore |-> 0,
                                 currentAttempt |-> 0, foodEatenCount |-> 0 ]
            /\ latestScores' = << 0, 0, 0 >>
            /\ expectedScore' = 0
            /\ sent' = << >>
      ]_vars

\* the state right after the replay of a session whose real attempts scored:
\* the rules screen of the second session, the tick effect having last run
\* for the game-over render
C19_Witness ==
    /\ stage = 1 /\ gameState = initialState
    /\ effDeps = << initialState.speed, TRUE >>
    /\ scoreTracker = newScoreTracker /\ latestScores = << 0, 0, 0 >>

\* the third real attempt has ended in a session whose score-tracking state
\* is not zero (the state the replay is taken from)
SessionEndsWithPoints ==
    /\ stage = 6 /\ gameState.gameOver /\ finals[1] > 0 /\ finals[3] > 0
    /\ latestScores = finals /\ scoreTracker.currentScore > 0 /\ expectedScore > 0

-----------------------------------------------------------------------------
(* C20 *)

\* C20: in the final variant the speed is the base value of 200 ms in every
\* state, and an armed interval was armed with 200 ms.
C20_SpeedIsBase ==
    variant = "final" =>
        /\ gameState.speed = 200
        /\ timer.armed => timer.cap.speed = 200

\* two foods have been eaten and the speed is still the base value
C20_Witness ==
    /\ variant = "final" /\ eaten = 2 /\ gameState.score = 20
    /\ gameState.speed = initialState.speed /\ timer.armed

-----------------------------------------------------------------------------
(* C21 *)

\* earlier variant: the speed after the n-th food of an attempt
RECURSIVE speedAfterEarlier(_)
speedAfterEarlier(n) ==
    IF n = 0 THEN initialState.speed
    ELSE newSpeedEarlier([speed |-> speedAfterEarlier(n - 1)], n)

\* the numbers of foods eaten at which the exploration is taken up again
LongSnakeFoods == { 4, 9, 10 }

\* A state of practice attempt 1 of the earlier variant in the 400 x 380
\* window, reached from the initial state by five ticks, a swipe DOWN, five
\* ticks (the fifth eats the food at (10, 10)), a swipe RIGHT and n - 1 ticks
\* that each eat a food rolled onto the next cell of row 10; the n-th food
\* has just been eaten and the new one lies ahead of the head.
LongSnakeState(n) ==
    [initialState EXCEPT
        !.snake = [ i \in 1..(n + 3) |->
                      IF i <= n THEN [x |-> 10 + n - i, y |-> 10]
                      ELSE [x |-> 10, y |-> 10 - (i - n)] ],
        !.food = [x |-> (10 + n) % 20, y |-> 10, color |-> "RED"],
        !.snakeColor = "RED",
        !.score = n,
        !.speed = speedAfterEarlier(n),
        !.showRules = FALSE]

\* the exploration continued from LongSnakeState(n); the interval is the one
\* of the last render that changed the speed (the mount, up to four foods)
InitLongSnake ==
    \E n \in LongSnakeFoods, item \in StoredHighScores :
        /\ win = [w |-> 400, h |-> 380]
        /\ variant = "earlier"
        /\ hasChannel = TRUE
        /\ gameState = LongSnakeState(n)
        /\ persisted = item
        /\ highScore = loadHighScore(item)
        /\ scoreTracker = newScoreTracker
        /\ latestScores = << 0, 0, 0 >>
        /\ expectedScore = 0
        /\ timer = [ armed |-> TRUE,
                     cap |-> IF n < 5 THEN initialState ELSE LongSnakeState(n),
                     capHigh |-> loadHighScore(item) ]
        /\ effDeps = << speedAfterEarlier(n), FALSE >>
        /\ sent = << >>
        /\ stage = 1
        /\ eaten = n
        /\ finals = << 0, 0, 0 >>
        /\ ticks = 0
        /\ turns = 0
        /\ request = "RIGHT"

SpecLongSnake == InitLongSnake /\ [][Next]_vars

\* C21: in the earlier variant the speed is within 50..200 in every state, no
\* step within an attempt increases it, and every step that begins a new
\* attempt leaves it at 200.
C21_SpeedRange ==
    /\ gameState.speed \in 50..200
    /\ [][ /\ gameState'.speed \in 50..200
           /\ stage' = stage => gameState'.speed <= gameState.speed
           /\ stage' # stage => gameState'.speed = 200
         ]_vars

\* the eleventh food has taken the speed from 60 to the floor of 50
C21_Witness ==
    /\ variant = "earlier" /\ gameState.score = 11 /\ eaten = 11
    /\ gameState.speed = 50 /\ ~gameState.gameOver

-----------------------------------------------------------------------------
(* C22 *)

\* the fields the board is drawn from
Board(g) == << g.snake, g.food, g.score, g.speed >>

\* C22: no interval is armed while gameOver is true, and from the game-over
\* until the next reset no tick is applied: the count of ticks and the snake,
\* food, score and speed stay as they are.
C22_NoTickAfterGameOver ==
    /\ [](gameState.gameOver => ~timer.armed)
    /\ [][ (gameState.gameOver /\ stage' = stage) =>
               (ticks' = ticks /\ Board(gameState') = Board(gameState)) ]_vars

\* the part of C22 that is about the board alone
C22_BoardFrozen ==
    [][ (gameState.gameOver /\ stage' = stage) => Board(gameState') = Board(gameState) ]_vars

-----------------------------------------------------------------------------
(* C23 *)

\* C23: the tick that follows one or more accepted direction requests uses
\* the direction of the last of them, whatever the interval's callback has
\* captured: it moves the head one cell in that direction (wrapped), or, if
\* that cell holds an obstacle or the snake, ends the attempt in place.
C23_LastRequestWins ==
    [][ (ticks' = ticks + 1 /\ request # NoRequest /\ ~gameState.gameOver) =>
            LET head == NextHead([gameState EXCEPT !.direction = request], win)
            IN  IF Collides(gameState, head, win)
                THEN gameState'.gameOver /\ gameState'.snake = gameState.snake
                ELSE ~gameState'.gameOver /\ gameState'.snake[1] = head
      ]_vars

\* the first tick after a swipe DOWN has moved the head down from (5, 5),
\* from a callback that captured the direction RIGHT
C23_Witness ==
    /\ request = "DOWN" /\ turns = 1 /\ timer.armed /\ timer.cap.direction = "RIGHT"
    /\ gameState.snake[1] = [x |-> 5, y |-> 6] /\ gameState.snake[2] = [x |-> 5, y |-> 5]
    /\ ~gameState.gameOver

\* two requests accepted before the first tick (DOWN, then RIGHT): the tick
\* used the second
TwoRequestsThenTick ==
    /\ request = "RIGHT" /\ turns = 2 /\ ticks = 1 /\ stage = 1
    /\ gameState.snake[1] = [x |-> 6, y |-> 5] /\ gameState.snake[2] = [x |-> 5, y |-> 5]

-----------------------------------------------------------------------------
(* The host: window.ReactNativeWebView may be absent, may be injected later,
   and its postMessage may throw *)

\* the host injects window.ReactNativeWebView; nothing is rendered
ChannelAppears ==
    /\ ~hasChannel
    /\ hasChannel' = TRUE
    /\ UNCHANGED << win, variant, gameState, highScore, persisted, scoreTracker,
                    latestScores, expectedScore, timer, effDeps, sent, stage, eaten,
                    finals, ticks, turns, request >>

\* a fatal tick of a real attempt in which the n-th postMessage throws: the
\* refs have been written, the sends before the n-th have been made, and the
\* catch block queues the update that sets gameOver alone
TickCollidesThrows ==
    LET head == NextHead(gameState, win)
        over == IF variant = "final"
                THEN handleGameOver(timer.cap, timer.capHigh, scoreTracker, latestScores, hasChannel)
                ELSE handleGameOverEarlier(timer.cap, timer.capHigh, scoreTracker, latestScores, hasChannel)
    IN  /\ timer.armed
        /\ Collides(gameState, head, win)
        /\ EffectsFlushed
        /\ \E n \in 1..Len(over.posted) : sent' = sent \o SubSeq(over.posted, 1, n - 1)
        /\ gameState' = GameOverState(gameState, << >>)
        /\ scoreTracker' = over.scoreTracker
        /\ latestScores' = over.latestScores
        /\ finals' = IF stage \in 4..6 THEN [finals EXCEPT ![stage - 3] = gameState.score] ELSE finals
        /\ ticks' = ticks + 1
        /\ UNCHANGED << win, variant, hasChannel, highScore, persisted, expectedScore,
                        stage, eaten, turns, request >>

NextHost ==
    \/ Next
    \/ ChannelAppears
    \/ TickCollidesThrows

\* the final variant in the 400 x 380 window, with or without the host channel
InitHost ==
    \E chan \in BOOLEAN, item \in StoredHighScores :
        InitWith("final", chan, [w |-> 400, h |-> 380], item)

SpecHost == InitHost /\ [][NextHost]_vars

-----------------------------------------------------------------------------
(* C24 *)

\* C24: a fatal tick of a real attempt without the host channel posts
\* nothing, sets gameOver, writes the attempt's score into its slot of the
\* score record, and leaves the game state and both score refs exactly as the
\* same tick with the channel leaves them, so that whatever is posted once
\* the channel is there is what a run with the channel posts.
C24_SilentWithoutChannel ==
    [][ (stage \in 4..6 /\ ticks' = ticks + 1 /\ gameState'.gameOver /\ ~hasChannel) =>
            LET with == handleGameOver(timer.cap, timer.capHigh, scoreTracker, latestScores, TRUE)
            IN  /\ sent' = sent
                /\ gameState' = GameOverState(gameState, with.realScores)
                /\ scoreTracker' = with.scoreTracker
                /\ latestScores' = with.latestScores
                /\ latestScores'[stage - 3] = gameState.score
                /\ gameState'.realScores[stage - 3] = gameState.score
      ]_vars

\* a real attempt that ate has ended without the channel: nothing posted, the
\* score in the record
C24_Witness ==
    /\ stage \in 4..6 /\ gameState.gameOver /\ ~hasChannel /\ sent = << >>
    /\ eaten > 0 /\ gameState.score = 10 * eaten
    /\ latestScores[stage - 3] = gameState.score
    /\ gameState.realScores[stage - 3] = gameState.score

-----------------------------------------------------------------------------
(* C25 *)

NextThrows ==
    \/ Next
    \/ TickCollidesThrows

\* both variants in the 400 x 380 window, with the host channel
InitThrows ==
    \E v \in { "final", "earlier" }, item \in StoredHighScores :
        InitWith(v, TRUE, [w |-> 400, h |-> 380], item)

SpecThrows == InitThrows /\ [][NextThrows]_vars

\* the state a game-over without an exception leaves: gameOver and the score
\* record of the refs in realScores
CompletedGameOver(g) ==
    GameOverState(g, IF variant = "final" THEN latestScores ELSE scoreTracker.scores)

\* C25: every fatal tick, whether or not a send throws, ends with gameOver
\* set (the exception is caught in the handler); and the reset of a real
\* attempt yields the state it yields after a game-over that completed, one
\* place further in the order of attempts, the rules screen after the third.
C25_GameOverDespiteException ==
    [][ /\ (ticks' = ticks + 1 /\ Collides(gameState, NextHead(gameState, win), win)) =>
               gameState'.gameOver
        /\ (stage \in 4..6 /\ stage' # stage) =>
               LET tracked == resetTracker(gameState, scoreTracker, latestScores, variant)
                   carried == IF variant = "final" THEN latestScores ELSE tracked.scores
               IN  /\ gameState' = resetGame(CompletedGameOver(gameState), carried)
                   /\ Position(gameState') = IF stage = 6 THEN 1 ELSE stage + 1
                   /\ gameState'.showRules = (stage = 6)
      ]_vars

\* the first send of a real attempt that ate has thrown: gameOver is set,
\* nothing was posted, and realScores was not written
C25_Witness ==
    /\ stage \in 4..6 /\ gameState.gameOver /\ hasChannel /\ sent = << >>
    /\ eaten > 0 /\ finals[stage - 3] > 0
    /\ gameState.realScores[stage - 3] = 0

\* the send of finalScores has thrown after the attemptScore message went out
FinalScoresSendThrew ==
    /\ stage = 6 /\ gameState.gameOver /\ hasChannel
    /\ Len(sent) = 1 /\ sent[1].type = "attemptScore"

-----------------------------------------------------------------------------
(* C26 *)

\* C26: in the earlier variant the allScores of every attemptScore message of
\* real attempt k holds, in the slots before k, the scores the earlier real
\* attempts ended with, and the scores of the finalScores message are the
\* scores the three real attempts ended with.
C26_RecordHoldsEarlierAttempts ==
    variant = "earlier" =>
        \A i \in 1..Len(sent) :
            /\ sent[i].type = "attemptScore" =>
                   \A j \in 1..3 : j < stage - 3 => sent[i].allScores[j] = finals[j]
            /\ sent[i].type = "finalScores" => sent[i].scores = finals

\* the part of C26 about the attempts after the first
C26_LaterSlotsHold ==
    variant = "earlier" =>
        \A i \in 1..Len(sent) :
            /\ sent[i].type = "attemptScore" =>
                   \A j \in 2..3 : j < stage - 3 => sent[i].allScores[j] = finals[j]
            /\ sent[i].type = "finalScores" =>
                   \A j \in 2..3 : sent[i].scores[j] = finals[j]

-----------------------------------------------------------------------------
(* C27 *)

\* C27: in the earlier variant the score of every attemptScore message is the
\* score the attempt that posted it had at its fatal collision, however many
\* foods it ate.
C27_ScoreAtCollision ==
    variant = "earlier" =>
        \A i \in 1..Len(sent) :
            sent[i].type = "attemptScore" => sent[i].score = finals[stage - 3]

-----------------------------------------------------------------------------
(* C28 *)

\* no two segments of the snake lie on the same cell
SegmentsDistinct(g) ==
    \A i, j \in 1..Len(g.snake) : i # j => g.snake[i] # g.snake[j]

\* C28: in every reachable state the snake has at least three segments and
\* no two of them occupy the same cell.
C28_SnakeShape ==
    Len(gameState.snake) >= 3 /\ SegmentsDistinct(gameState)

\* a tick has found the cell ahead of the head occupied by a segment of the
\* snake: the attempt is over and the snake is as it was
C28_Witness ==
    /\ gameState.gameOver /\ ticks >= 2
    /\ \E n \in 2..Len(gameState.snake) : gameState.snake[n] = CandidateHead(gameState)
    /\ Len(gameState.snake) >= 3 /\ SegmentsDistinct(gameState)

\* a snake that has eaten twice
GrownSnake ==
    Len(gameState.snake) = 5 /\ eaten = 2

-----------------------------------------------------------------------------
(* C29 *)

\* C29: within an attempt the food changes only in a tick that eats it: every
\* other tick, the fatal one included, and every direction request leave its
\* position and colour as they are; the tick that eats gives the snake the
\* colour of the food eaten and the new food one of the five colours red,
\* orange, yellow, green, blue.
C29_FoodFrame ==
    [][ /\ (stage' = stage /\ eaten' = eaten) => gameState'.food = gameState.food
        /\ eaten' = eaten + 1 =>
               /\ gameState'.snakeColor = gameState.food.color
               /\ gameState'.food.color \in { "RED", "ORANGE", "YELLOW", "GREEN", "BLUE" }
      ]_vars

\* the second food eaten was blue, and so is the snake
C29_Witness ==
    /\ eaten = 2 /\ gameState.snakeColor = "BLUE" /\ initialState.snakeColor # "BLUE"
    /\ gameState.food.color \in { "RED", "BLUE" }

-----------------------------------------------------------------------------
(* C30 *)

\* the food lies on an obstacle cell
FoodOnObstacle(g) ==
    \E n \in 1..12 : generateObstacles(win)[n].x = g.food.x /\ generateObstacles(win)[n].y = g.food.y

\* the food lies on a cell of the snake
FoodOnSnake(g) ==
    \E n \in 1..Len(g.snake) : g.snake[n].x = g.food.x /\ g.snake[n].y = g.food.y

\* C30: the new food may land on an obstacle cell (the witness), and from
\* then on, for the rest of the attempt, the food is not regenerated and the
\* score does not change.
C30_FoodOnObstacleStays ==
    [][ (FoodOnObstacle(gameState) /\ stage' = stage) =>
            /\ gameState'.food = gameState.food
            /\ gameState'.score = gameState.score
            /\ eaten' = eaten
      ]_vars

\* the food rolled onto the obstacle cell (10, 11) when the first food was
\* eaten, and the snake has moved on since
C30_Witness ==
    /\ FoodOnObstacle(gameState) /\ eaten = 1 /\ ~gameState.gameOver
    /\ gameState.food.x = 10 /\ gameState.food.y = 11
    /\ gameState.snake[1] = [x |-> 11, y |-> 10]

\* the food rolled onto the cell of the head that ate the food before it
FoodOnSnakeReached ==
    FoodOnSnake(gameState) /\ eaten = 2 /\ gameState.food.x = gameState.snake[1].x

-----------------------------------------------------------------------------
(* C31 *)

\* C31: in every reachable state the food lies on a cell of the grid the
\* window yields: 0 <= x < GRID_WIDTH and 0 <= y < GRID_HEIGHT.
C31_FoodInGrid ==
    /\ gameState.food.x \in 0..(GRID_WIDTH(win) - 1)
    /\ gameState.food.y \in 0..(GRID_HEIGHT(win) - 1)

-----------------------------------------------------------------------------
(* C32 *)

\* the cell is one of the twelve obstacle cells
OnObstacle(cell) ==
    \E n \in 1..12 : generateObstacles(win)[n].x = cell.x /\ generateObstacles(win)[n].y = cell.y

\* C32: in every reachable state no segment of the snake lies on an obstacle
\* cell, and the cell the first tick of an attempt moves to, (6, 5), is not
\* an obstacle cell.
C32_SnakeOffObstacles ==
    /\ \A n \in 1..Len(gameState.snake) : ~OnObstacle(gameState.snake[n])
    /\ gameState.snake = initialState.snake => ~OnObstacle([x |-> 6, y |-> 5])

\* the part of C32 that holds: a tick never moves the head onto an obstacle
C32_NoMoveOntoObstacle ==
    [][ gameState'.snake # gameState.snake /\ stage' = stage =>
            ~OnObstacle(gameState'.snake[1]) ]_vars

-----------------------------------------------------------------------------
(* C33 *)

\* C33: while the rules screen is shown no tick is applied: the snake, the
\* score and gameOver stay as the initial state has them, so that the start
\* action shows practice attempt 1 with the initial snake and gameOver false.
C33_RulesScreenIdle ==
    /\ [](gameState.showRules =>
              /\ gameState.snake = initialState.snake
              /\ gameState.score = 0
              /\ ~gameState.gameOver)
    /\ [][ (gameState.showRules /\ ~gameState'.showRules) =>
               (gameState'.snake = initialState.snake /\ ~gameState'.gameOver) ]_vars

\* a tick has ended practice attempt 1 while the rules screen is shown
StartsGameOver ==
    gameState.showRules /\ gameState.gameOver

-----------------------------------------------------------------------------
(* C34 *)

InitLive ==
    \E item \in StoredHighScores : InitWith("final", TRUE, [w |-> 400, h |-> 380], item)

\* The final variant in the 400 x 380 window, where a send may throw.  The
\* player presses PLAY! on the rules screen and the button of every game-over
\* overlay: both stay enabled until pressed.  That the interval keeps firing
\* until the attempt collides is the premise of C34_SessionCompletes.
SpecLive ==
    /\ InitLive
    /\ [][NextThrows]_vars
    /\ WF_vars(StartGame)
    /\ WF_vars(ResetGame)

\* the third real attempt is over and the overlay offers LEADERBOARD
Leaderboard ==
    stage = 6 /\ gameState.gameOver /\ ~gameState.showRules

\* C34: every tick that finds a collision leaves gameOver true, in both
\* phases and when a send throws; and if the ticks go on until every attempt
\* has collided (gameOver is set again and again), the session reaches the
\* LEADERBOARD state, and from there the rules screen.
C34_SessionCompletes ==
    /\ [][ (ticks' = ticks + 1 /\ Collides(gameState, NextHead(gameState, win), win)) =>
               gameState'.gameOver ]_vars
    /\ ([]<>gameState.gameOver) =>
           (<>Leaderboard /\ (Leaderboard ~> (stage = 1 /\ gameState.showRules)))

\* the LEADERBOARD state, reached through a third real attempt whose send of
\* finalScores threw
C34_Witness ==
    /\ Leaderboard /\ ~gameState.isPractice /\ gameState.realAttemptsLeft = 1
    /\ Len(sent) = 1 /\ sent[1].type = "attemptScore"

-----------------------------------------------------------------------------
(* C35 *)

\* C35: in every reachable state, in the practice phase practiceAttemptsLeft
\* is in 1..3; in the real phase realAttemptsLeft is in 1..3,
\* practiceAttemptsLeft is 0, and currentAttemptNumber is in 1..3 and equals
\* 4 - realAttemptsLeft, the number handleGameOver derives for its report.
C35_CountersConsistent ==
    /\ gameState.isPractice => gameState.practiceAttemptsLeft \in 1..3
    /\ ~gameState.isPractice =>
           /\ gameState.realAttemptsLeft \in 1..3
           /\ gameState.practiceAttemptsLeft = 0
           /\ gameState.currentAttemptNumber \in 1..3
           /\ gameState.currentAttemptNumber = 4 - gameState.realAttemptsLeft
           /\ gameState.currentAttemptNumber = attemptNumberOf(gameState)

\* the third real attempt is running: one attempt left, stored as attempt 3
C35_Witness ==
    /\ ~gameState.isPractice /\ ~gameState.gameOver /\ ticks > 0
    /\ gameState.realAttemptsLeft = 1 /\ gameState.currentAttemptNumber = 3
    /\ gameState.practiceAttemptsLeft = 0

-----------------------------------------------------------------------------
(* C36 *)

\* C36: in the final variant, once the game-over of a real attempt has been
\* handled, the record of the ScoreTracker, the latestScores ref and
\* gameState.realScores are equal; and while a real attempt runs, the
\* ScoreTracker's current attempt is the stored currentAttemptNumber.
C36_OneScoreRecord ==
    (variant = "final" /\ stage \in 4..6 /\ ~gameState.isPractice) =>
        /\ gameState.gameOver =>
               /\ scoreTracker.scores = latestScores
               /\ latestScores = gameState.realScores
        /\ ~gameState.gameOver =>
               scoreTracker.currentAttempt = gameState.currentAttemptNumber

\* the part of C36 that holds: latestScores and realScores agree after the
\* game-over of a real attempt
C36_RefAndStateAgree ==
    (variant = "final" /\ stage \in 4..6 /\ ~gameState.isPractice /\ gameState.gameOver) =>
        latestScores = gameState.realScores

\* the part of C36 about the attempts after the first
C36_LaterAttemptsNumbered ==
    (variant = "final" /\ stage \in 5..6 /\ ~gameState.isPractice /\ ~gameState.gameOver) =>
        scoreTracker.currentAttempt = gameState.currentAttemptNumber

=============================================================================
